---- MODULE Spec2Model ----
(***************************************************************************)
(* A model of the bezier package: Surface degree inference and the cached  *)
(* area accessor (bezier/surface.py), CurvedPolygon boundary validation    *)
(* (bezier/curved_polygon.py) and the curve-curve intersection search that *)
(* functional_tests/test_curve_curve.py exercises.                         *)
(*                                                                         *)
(* Each component has its own specification (SpecDegree, SpecSurface,      *)
(* SpecPolygon, SpecIntersect); the variables of the other components stay *)
(* at their idle values.  Spec is their union.                             *)
(***************************************************************************)
EXTENDS Integers, Sequences, FiniteSets, TLC

VARIABLES
    \* Surface._get_degree: the argument, the position of the call, its outcome
    num_nodes, deg_pc, deg_ret,
    \* Surface: the node table's rank and shape, the object's fields, the
    \* position of the object, the last operation and its outcome, and the
    \* value most recently assigned to _area (history)
    nodes_shape, s_pc, _degree, _dimension, _area, s_op, s_ret, written,
    \* CurvedPolygon: the constructor's arguments, the fields, the position in
    \* _verify, the number of _verify_pair calls made, the error raised
    edges, _edges, _num_sides, p_pc, p_i, p_calls, p_err,
    \* all_intersections: the curve pair, the work queue, the reported
    \* intersections, the position of the search
    pair, queue, intersections, i_pc

degVars  == <<num_nodes, deg_pc, deg_ret>>
surfVars == <<nodes_shape, s_pc, _degree, _dimension, _area, s_op, s_ret, written>>
polyVars == <<edges, _edges, _num_sides, p_pc, p_i, p_calls, p_err>>
intVars  == <<pair, queue, intersections, i_pc>>
vars     == <<degVars, surfVars, polyVars, intVars>>

----------------------------------------------------------------------------
(* Outcomes of a call: a returned value or a raised exception.             *)

Ok(v)  == [ok |-> TRUE,  val |-> v, err |-> ""]
Err(e) == [ok |-> FALSE, val |-> 0, err |-> e]
NoCall == [ok |-> FALSE, val |-> 0, err |-> "no call"]

----------------------------------------------------------------------------
(* Bounds.                                                                 *)

\* Largest node count handed to _get_degree (78 nodes is degree 11).
MaxNodes == 80
\* Binary digits kept after the point by the model of np.sqrt.
FracBits == 8

----------------------------------------------------------------------------
(* Floating point, as far as _get_degree uses it: values are fixed-point   *)
(* numbers with FracBits fractional bits, sqrt is rounded to nearest, and  *)
(* np.round rounds half to even.                                           *)

RECURSIVE Pow2(_)
Pow2(k) == IF k = 0 THEN 1 ELSE 2 * Pow2(k - 1)

One == Pow2(FracBits)

\* floor(sqrt(x)) by Newton's iteration from above.
RECURSIVE NewtonSqrt(_, _)
NewtonSqrt(x, r) ==
    LET r2 == (r + (x \div r)) \div 2
    IN  IF r2 < r THEN NewtonSqrt(x, r2) ELSE r

FloorSqrt(x) == IF x = 0 THEN 0 ELSE NewtonSqrt(x, x)

\* np.sqrt of the fixed-point value x (x = v * One): the nearest
\* fixed-point value to the real square root.
np_sqrt(x) ==
    LET y == x * One
        r == FloorSqrt(y)
    IN  IF y - r * r > r THEN r + 1 ELSE r

\* np.round followed by int(): the integer nearest to num / den (den > 0),
\* a tie going to the even neighbour.
np_round(num, den) ==
    LET q == (2 * num + den) \div (2 * den)
        tie == (2 * num + den) % (2 * den) = 0
    IN  IF tie /\ q % 2 # 0 THEN q - 1 ELSE q

----------------------------------------------------------------------------
(* Surface._get_degree                                                     *)

\* d_float = 0.5 * (np.sqrt(8.0 * num_nodes + 1.0) - 3.0), as the pair
\* (numerator, denominator) of fixed-point values.
d_float_oneBased(n) == <<np_sqrt((8 * n + 1) * One) - 1 * One, 2 * One>>

d_float(n) == <<np_sqrt((8 * n + 1) * One) - 3 * One, 2 * One>>

d_int(n) == np_round(d_float(n)[1], d_float(n)[2])

\* Faulty variants: the verification of the identity left out; the
\* identity and closed form of the other triangular convention,
\* d(d+1)/2 = n.
get_degree_unverified(n) == Ok(d_int(n))

get_degree_oneBased(n) ==
    LET d == np_round(d_float_oneBased(n)[1], d_float_oneBased(n)[2])
    IN  IF d * (d + 1) = 2 * n
          THEN Ok(d)
          ELSE Err("not a triangular number")

_get_degree(n) ==
    IF (d_int(n) + 1) * (d_int(n) + 2) = 2 * n
      THEN Ok(d_int(n))
      ELSE Err("not a triangular number")

DegIdle ==
    /\ num_nodes = 0
    /\ deg_pc = "idle"
    /\ deg_ret = NoCall

DegInit ==
    /\ num_nodes \in 0..MaxNodes
    /\ deg_pc = "call"
    /\ deg_ret = NoCall

GetDegree ==
    /\ deg_pc = "call"
    /\ deg_ret' = _get_degree(num_nodes)
    /\ deg_pc' = "done"
    /\ UNCHANGED <<num_nodes, surfVars, polyVars, intVars>>

DegNext == GetDegree

----------------------------------------------------------------------------
(* Surface: construction and the area accessor                             *)

\* Largest number of rows of a node table handed to the constructor.
MaxRows == 10
\* Largest number of columns (the ambient dimension) of a node table.
MaxCols == 3
\* Area values that are assigned to the cache are 0..MaxArea.
MaxArea == 2

\* An optional value: None is the empty tuple, a value v the tuple <<v>>.
None    == <<>>
Some(v) == <<v>>

\* The node tables handed to the constructor: their rank (nodes.ndim) and,
\* for a table of rank 2, their shape.
NodeShapes ==
    {[ndim |-> 2, rows |-> r, cols |-> c] : r \in 0..MaxRows, c \in 1..MaxCols}
      \cup {[ndim |-> d, rows |-> 2, cols |-> 2] : d \in {1, 3}}

\* Base.__init__, which Surface inherits: the table must have rank 2, the
\* degree is inferred from the number of rows by _get_degree, and a degree
\* below 1 is refused.  The outcome and the fields it leaves set.
Base_init(shape) ==
    LET d == _get_degree(shape.rows)
    IN  IF shape.ndim # 2
          THEN [ret |-> Err("Nodes must be 2-dimensional"),
                degree |-> None, dimension |-> None]
        ELSE IF ~d.ok
          THEN [ret |-> d, degree |-> None, dimension |-> None]
        ELSE IF d.val < 1
          THEN [ret |-> Err("Degree must be at least 1"),
                degree |-> Some(d.val), dimension |-> None]
        ELSE [ret |-> Ok(0), degree |-> Some(d.val),
              dimension |-> Some(shape.cols)]

\* A faulty variant: the cache tested for truth instead of for None.
area_truthy(a) ==
    IF a = None \/ a = Some(0)
      THEN Err("Area computation not yet implemented.")
      ELSE Ok(a[1])

\* The area property: the cached value, or NotImplementedError.
area(a) ==
    IF a = None
      THEN Err("Area computation not yet implemented.")
      ELSE Ok(a[1])

SurfIdle ==
    /\ nodes_shape = [ndim |-> 0, rows |-> 0, cols |-> 0]
    /\ s_pc = "idle"
    /\ _degree = None
    /\ _dimension = None
    /\ _area = None
    /\ s_op = "none"
    /\ s_ret = NoCall
    /\ written = None

SurfInit ==
    /\ nodes_shape \in NodeShapes
    /\ s_pc = "new"
    /\ _degree = None
    /\ _dimension = None
    /\ _area = None
    /\ s_op = "none"
    /\ s_ret = NoCall
    /\ written = None

\* Surface(nodes)
Construct ==
    /\ s_pc = "new"
    /\ LET r == Base_init(nodes_shape)
       IN  /\ s_ret' = r.ret
           /\ _degree' = r.degree
           /\ _dimension' = r.dimension
           /\ s_pc' = IF r.ret.ok THEN "constructed" ELSE "failed"
    /\ s_op' = "init"
    /\ UNCHANGED <<nodes_shape, _area, written>>
    /\ UNCHANGED <<degVars, polyVars, intVars>>

\* surface._area = v, v a value or None
SetArea ==
    /\ s_pc = "constructed"
    /\ \E v \in {None} \cup {Some(x) : x \in 0..MaxArea} :
         /\ _area' = v
         /\ written' = v
    /\ s_op' = "write"
    /\ s_ret' = Ok(0)
    /\ UNCHANGED <<nodes_shape, s_pc, _degree, _dimension>>
    /\ UNCHANGED <<degVars, polyVars, intVars>>

\* surface.area
ReadArea ==
    /\ s_pc = "constructed"
    /\ s_ret' = area(_area)
    /\ s_op' = "read"
    /\ UNCHANGED <<nodes_shape, s_pc, _degree, _dimension, _area, written>>
    /\ UNCHANGED <<degVars, polyVars, intVars>>

SurfNext == Construct \/ SetArea \/ ReadArea

----------------------------------------------------------------------------
(* CurvedPolygon: construction and boundary validation                    *)

\* Most edges in an enumerated edge sequence.
MaxEdges == 3

\* A floating-point coordinate: a number (in units of 1/2, so that the
\* docstring's 0.5 is 1) or NaN.  == on floats is false when either side
\* is NaN.
F(v) == <<FALSE, v>>
NaN  == <<TRUE, 0>>
FloatEq(x, y) == ~x[1] /\ ~y[1] /\ x[2] = y[2]

\* A Curve as the validator sees it: its ambient dimension (the width of
\* the node table) and its control points, first to last.
Curve(nodes) == [dimension |-> Len(nodes[1]), _nodes |-> nodes]

Points1 == {<<F(0)>>, <<F(2)>>}
Points2 == {<<F(0), F(0)>>, <<F(2), F(0)>>, <<F(0), F(4)>>, <<NaN, F(0)>>}
Points3 == {<<F(0), F(0), F(0)>>}

\* The enumerated edges: every first and last control point of one width.
EdgeSet ==
    {Curve(<<a, b>>) : a \in Points1, b \in Points1}
      \cup {Curve(<<a, b>>) : a \in Points2, b \in Points2}
      \cup {Curve(<<a, b>>) : a \in Points3, b \in Points3}

\* The four edges of the class docstring (doctest curved-polygon-ctor).
edge0 == Curve(<< <<F(0), F(0)>>, <<F(1), F(-2)>>, <<F(2), F(0)>> >>)
edge1 == Curve(<< <<F(2), F(0)>>, <<F(2), F(4)>> >>)
edge2 == Curve(<< <<F(2), F(0)>>, <<F(1), F(6)>>, <<F(0), F(0)>> >>)
edge3 == Curve(<< <<F(0), F(4)>>, <<F(0), F(0)>> >>)
DocEdges == <<edge0, edge1, edge2, edge3>>

EdgeSeqs ==
    UNION {[1..n -> EdgeSet] : n \in 0..MaxEdges} \cup {DocEdges}

\* prev._nodes[-1, :] == curr._nodes[0, :] under np.all: the rows are
\* compared coordinate by coordinate; a row of width 1 is broadcast
\* against the other; rows of other unequal widths do not broadcast, which
\* is a scalar False in a numpy that still deprecates the comparison and
\* a ValueError in one that has finalised it.
np_all_eq(p, q) ==
    LET all(S) == IF S THEN "True" ELSE "False"
    IN  IF Len(p) = Len(q)
          THEN {all(\A k \in 1..Len(p) : FloatEq(p[k], q[k]))}
        ELSE IF Len(q) = 1
          THEN {all(\A k \in 1..Len(p) : FloatEq(p[k], q[1]))}
        ELSE IF Len(p) = 1
          THEN {all(\A k \in 1..Len(q) : FloatEq(p[1], q[k]))}
        ELSE {"False", "operands could not be broadcast together"}

\* _verify_pair(prev, curr): the outcomes, "ok" or the message raised.
_verify_pair(prev, curr) ==
    IF prev.dimension # 2
      THEN {"Curve not in R^2"}
      ELSE {IF r = "True" THEN "ok"
            ELSE IF r = "False"
              THEN "Consecutive sides do not have common endpoint"
            ELSE r :
              r \in np_all_eq(prev._nodes[Len(prev._nodes)], curr._nodes[1])}

\* Faulty variants: one side accepted; the wrap-around pair left out.
TooFewSidesOne(n) == n < 1

PairsNoWrap(n) == [k \in 1..(n - 1) |-> <<k, k + 1>>]

\* if self.num_sides < 2
TooFewSides(n) == n < 2

\* The pairs (prev, curr) that _verify hands to _verify_pair, in order, as
\* indices into _edges: zip(edges, edges[1:]), then the last edge with
\* the first.
Pairs(n) == [k \in 1..n |-> IF k < n THEN <<k, k + 1>> ELSE <<n, 1>>]

\* The num_sides property.
num_sides == _num_sides

PolyIdle ==
    /\ edges = <<>>
    /\ _edges = <<>>
    /\ _num_sides = 0
    /\ p_pc = "idle"
    /\ p_i = 0
    /\ p_calls = 0
    /\ p_err = ""

PolyInit ==
    /\ edges \in EdgeSeqs
    /\ _edges = <<>>
    /\ _num_sides = 0
    /\ p_pc = "start"
    /\ p_i = 0
    /\ p_calls = 0
    /\ p_err = ""

\* CurvedPolygon(*edges), up to the first statement of _verify.
NewPolygon ==
    /\ p_pc = "start"
    /\ _edges' = edges
    /\ _num_sides' = Len(edges)
    /\ IF TooFewSides(Len(edges))
         THEN /\ p_pc' = "failed"
              /\ p_err' = "At least two sides required."
              /\ p_i' = 0
         ELSE /\ p_pc' = "verify"
              /\ p_err' = ""
              /\ p_i' = 1
    /\ UNCHANGED <<edges, p_calls>>
    /\ UNCHANGED <<degVars, surfVars, intVars>>

\* One call of _verify_pair from _verify: a raise ends the construction,
\* the last pair passing completes it.
VerifyPair ==
    /\ p_pc = "verify"
    /\ LET pr == Pairs(num_sides)[p_i]
       IN  \E o \in _verify_pair(_edges[pr[1]], _edges[pr[2]]) :
             IF o = "ok"
               THEN /\ p_err' = ""
                    /\ IF p_i = Len(Pairs(num_sides))
                         THEN p_pc' = "constructed" /\ p_i' = p_i
                         ELSE p_pc' = "verify" /\ p_i' = p_i + 1
               ELSE /\ p_err' = o
                    /\ p_pc' = "failed"
                    /\ p_i' = p_i
    /\ p_calls' = p_calls + 1
    /\ UNCHANGED <<edges, _edges, _num_sides>>
    /\ UNCHANGED <<degVars, surfVars, intVars>>

PolyNext == NewPolygon \/ VerifyPair

----------------------------------------------------------------------------
(* all_intersections: the curve-curve intersection search                 *)
(*                                                                         *)
(* bezier/_intersection_helpers.py is not among the source files; the     *)
(* search is modelled from the design (subdivision at 1/2, bounding-box    *)
(* pruning, a fixed convergence threshold, refinement of converged         *)
(* candidates) and held against what test_curves3_and_4 asserts of it.     *)
(* Control points are exact: coordinates are integers in units of 1/32 at  *)
(* depth 0, and a subdivision of a degree-d curve multiplies the unit's    *)
(* denominator by 2^d.                                                     *)

\* The convergence threshold is the width 2^-ThresholdBits.
ThresholdBits == 2

CURVE1 == << <<0, 0>>, <<16, 32>>, <<32, 0>> >>
CURVE3 == << <<0, 0>>, <<48, 96>>, <<96, 0>> >>
CURVE4 == << <<96, 48>>, <<84, -29>>, <<-24, 78>> >>
\* CURVE1 moved up by 1/32: it runs beside CURVE1 and never meets it.
Curve1Raised == << <<0, 1>>, <<16, 33>>, <<32, 1>> >>

\* The pairs searched: the test's CURVE3 and CURVE4, whose intersections
\* are at dyadic parameters, two pairs of identical curves, and a pair of
\* curves that stay close without meeting.  (The intersections of CURVE1
\* and CURVE2 are at irrational parameters, which the exact arithmetic
\* here cannot name.)
CurvePairs ==
    << <<CURVE3, CURVE4>>, <<CURVE1, CURVE1>>, <<CURVE3, CURVE3>>,
       <<CURVE1, Curve1Raised>> >>

\* One round of de Casteljau's scheme at 1/2 without the division: the
\* sums of adjacent points.
Round(nodes) == [k \in 1..(Len(nodes) - 1) |->
                    <<nodes[k][1] + nodes[k + 1][1], nodes[k][2] + nodes[k + 1][2]>>]

RECURSIVE Triangle(_)
\* The triangular array: row r (from 1) is the nodes after r - 1 rounds,
\* in units 2^(r-1) times finer.
Triangle(nodes) ==
    IF Len(nodes) = 1 THEN <<nodes>> ELSE <<nodes>> \o Triangle(Round(nodes))

Scaled(p, f) == <<p[1] * f, p[2] * f>>

\* subdivide(curve): the left child is the left edge of the triangle, the
\* right child its right edge, both brought to the finest row's unit.
subdivide(nodes) ==
    LET tri == Triangle(nodes)
        n == Len(nodes)
    IN  [left  |-> [r \in 1..n |-> Scaled(tri[r][1], Pow2(n - r))],
         right |-> [r \in 1..n |-> Scaled(tri[n + 1 - r][r], Pow2(r - 1))]]

Min(S) == LET x == CHOOSE y \in S : \A z \in S : y <= z IN x
Max(S) == LET x == CHOOSE y \in S : \A z \in S : y >= z IN x

\* bounding_box(curve): the axis-aligned box of the control points.
bounding_box(nodes) ==
    LET xs == {nodes[k][1] : k \in 1..Len(nodes)}
        ys == {nodes[k][2] : k \in 1..Len(nodes)}
    IN  [left |-> Min(xs), right |-> Max(xs), bottom |-> Min(ys), top |-> Max(ys)]

\* boxes_overlap: interval overlap in each dimension, touching included.
boxes_overlap(a, b) ==
    /\ a.left <= b.right /\ b.left <= a.right
    /\ a.bottom <= b.top /\ b.bottom <= a.top

\* A candidate: the two sub-curves, the index of each one's parameter
\* sub-interval [s / 2^depth, (s + 1) / 2^depth], and the depth.
Candidate(first, s, second, t, depth) ==
    [first |-> first, s |-> s, second |-> second, t |-> t, depth |-> depth]

\* A faulty variant: a candidate never counts as converged.
converged_never(c) == FALSE

\* Both sub-intervals, of width 2^-depth, are smaller than the threshold.
converged(c) == Pow2(ThresholdBits) < Pow2(c.depth)

\* The up-to-4 child pairs of a candidate, first curve's half major.
children(c) ==
    LET a == subdivide(c.first)
        b == subdivide(c.second)
        d == c.depth + 1
    IN  << Candidate(a.left,  2 * c.s,     b.left,  2 * c.t,     d),
           Candidate(a.left,  2 * c.s,     b.right, 2 * c.t + 1, d),
           Candidate(a.right, 2 * c.s + 1, b.left,  2 * c.t,     d),
           Candidate(a.right, 2 * c.s + 1, b.right, 2 * c.t + 1, d) >>

\* The refinement of a converged candidate: the corrector starts from the
\* midpoints of the two sub-intervals and ends at a parameter pair of the
\* candidate's closed box at which the two curves meet, if there is one.
\* The pairs are fractions of 2^(depth+1): the midpoints themselves when
\* the curves meet there, else a corner of the box at which the
\* sub-curves' end control points coincide (curves meeting at dyadic
\* parameters meet at corners).
refine(c) ==
    LET end(nodes, e) == IF e = 0 THEN nodes[1] ELSE nodes[Len(nodes)]
        mid(nodes) == end(subdivide(nodes).left, 1)
        den == Pow2(c.depth + 1)
    IN  IF mid(c.first) = mid(c.second)
          THEN {[s |-> 2 * c.s + 1, t |-> 2 * c.t + 1, den |-> den]}
          ELSE {[s |-> 2 * (c.s + ds), t |-> 2 * (c.t + dt), den |-> den] :
                  <<ds, dt>> \in {x \in {0, 1} \X {0, 1} :
                                    end(c.first, x[1]) = end(c.second, x[2])}}

\* What test_curves3_and_4 expects of all_intersections([(CURVE3, CURVE4)]):
\* s = 0.25, t = 0.75 four times, then s = 0.875, t = 0.25 four times.
test_curves3_and_4 ==
    LET den == Pow2(ThresholdBits + 2)
        at(s8, t8) == [s |-> (s8 * den) \div 8, t |-> (t8 * den) \div 8, den |-> den]
    IN  <<at(2, 6), at(2, 6), at(2, 6), at(2, 6),
          at(7, 2), at(7, 2), at(7, 2), at(7, 2)>>

IntIdle ==
    /\ pair = 0
    /\ queue = <<>>
    /\ intersections = <<>>
    /\ i_pc = "idle"

\* all_intersections([(curve1, curve2)]): the queue is seeded with the
\* pair of whole curves.
IntInit ==
    /\ pair \in 1..Len(CurvePairs)
    /\ queue = <<Candidate(CurvePairs[pair][1], 0, CurvePairs[pair][2], 0, 0)>>
    /\ intersections = <<>>
    /\ i_pc = "search"

Overlapping(c) == boxes_overlap(bounding_box(c.first), bounding_box(c.second))

\* The head candidate's boxes do not overlap: it is discarded.
Discard ==
    /\ i_pc = "search" /\ queue # <<>>
    /\ ~Overlapping(Head(queue))
    /\ queue' = Tail(queue)
    /\ UNCHANGED <<pair, intersections, i_pc>>
    /\ UNCHANGED <<degVars, surfVars, polyVars>>

\* The head candidate is not converged: its children are enqueued.
Subdivide ==
    /\ i_pc = "search" /\ queue # <<>>
    /\ Overlapping(Head(queue))
    /\ ~converged(Head(queue))
    /\ queue' = Tail(queue) \o children(Head(queue))
    /\ UNCHANGED <<pair, intersections, i_pc>>
    /\ UNCHANGED <<degVars, surfVars, polyVars>>

\* The head candidate is converged and its refinement finds an
\* intersection: it is reported.  Nothing is compared with the
\* intersections reported before.
Report ==
    /\ i_pc = "search" /\ queue # <<>>
    /\ Overlapping(Head(queue))
    /\ converged(Head(queue))
    /\ \E r \in refine(Head(queue)) :
         intersections' = Append(intersections, r)
    /\ queue' = Tail(queue)
    /\ UNCHANGED <<pair, i_pc>>
    /\ UNCHANGED <<degVars, surfVars, polyVars>>

\* The head candidate is converged and its refinement finds nothing: it
\* is dropped.
Drop ==
    /\ i_pc = "search" /\ queue # <<>>
    /\ Overlapping(Head(queue))
    /\ converged(Head(queue))
    /\ refine(Head(queue)) = {}
    /\ queue' = Tail(queue)
    /\ UNCHANGED <<pair, intersections, i_pc>>
    /\ UNCHANGED <<degVars, surfVars, polyVars>>

\* The queue is empty: the intersections are returned.
Return ==
    /\ i_pc = "search" /\ queue = <<>>
    /\ i_pc' = "done"
    /\ UNCHANGED <<pair, queue, intersections>>
    /\ UNCHANGED <<degVars, surfVars, polyVars>>

IntNext == Discard \/ Subdivide \/ Report \/ Drop \/ Return

----------------------------------------------------------------------------
(* Specifications                                                          *)

InitDegree  == DegInit /\ SurfIdle /\ PolyIdle /\ IntIdle
InitSurface == DegIdle /\ SurfInit /\ PolyIdle /\ IntIdle

InitPolygon == DegIdle /\ SurfIdle /\ PolyInit /\ IntIdle

InitIntersect == DegIdle /\ SurfIdle /\ PolyIdle /\ IntInit

SpecDegree  == InitDegree /\ [][DegNext]_vars
SpecSurface == InitSurface /\ [][SurfNext]_vars
SpecPolygon == InitPolygon /\ [][PolyNext]_vars
SpecIntersect == InitIntersect /\ [][IntNext]_vars
\* The search is one loop of one thread: it takes a step whenever it can.
FairIntersect == SpecIntersect /\ WF_vars(IntNext)

Init == InitDegree \/ InitSurface \/ InitPolygon \/ InitIntersect
Next == DegNext \/ SurfNext \/ PolyNext \/ IntNext
Spec == Init /\ [][Next]_vars

----------------------------------------------------------------------------
(* Properties                                                              *)

Triangular(d) == ((d + 1) * (d + 2)) \div 2

IsTriangular(n) == \E d \in 0..n : (d + 1) * (d + 2) = 2 * n

\* C1: for every d in 0..11, _get_degree((d+1)(d+2)/2) returns exactly d.
C1_DegreeLeftInverse ==
    deg_pc = "done" =>
        \A d \in 0..11 : num_nodes = Triangular(d) => deg_ret = Ok(d)

C1_Witness ==
    deg_pc = "done" /\ num_nodes = 78 /\ deg_ret = Ok(11)

\* C2: for every num_nodes >= 1 that is not (d+1)(d+2)/2 for any integer d,
\* _get_degree raises and returns no degree; any degree d it returns
\* satisfies (d+1)(d+2) = 2 * num_nodes.
C2_NonTriangularRejected ==
    deg_pc = "done" =>
        /\ (num_nodes >= 1 /\ ~IsTriangular(num_nodes))
             => deg_ret = Err("not a triangular number")
        /\ deg_ret.ok
             => (deg_ret.val + 1) * (deg_ret.val + 2) = 2 * num_nodes

C2_Witness ==
    deg_pc = "done" /\ num_nodes = 9 /\ deg_ret = Err("not a triangular number")

\* The junction after edge k of the constructor's arguments: the last
\* control point of edge k and the first of the next edge, cyclically,
\* are equal coordinate by coordinate.
JunctionMatches(k) ==
    LET prev == edges[k]
        curr == edges[(k % Len(edges)) + 1]
        p == prev._nodes[Len(prev._nodes)]
        q == curr._nodes[1]
    IN  \A c \in 1..2 : FloatEq(p[c], q[c])

AllPlanar == \A k \in 1..Len(edges) : edges[k].dimension = 2

PolygonDone == p_pc \in {"constructed", "failed"}

\* C3: for n >= 2 edges that all have dimension 2, construction succeeds
\* if and only if every junction, the wrap-around one included, matches
\* exactly; a mismatched junction fails with the endpoint-mismatch error.
C3_ClosedChain ==
    (PolygonDone /\ Len(edges) >= 2 /\ AllPlanar) =>
        /\ p_pc = "constructed" <=> \A k \in 1..Len(edges) : JunctionMatches(k)
        /\ p_pc = "failed" =>
             p_err = "Consecutive sides do not have common endpoint"

C3_Witness ==
    /\ p_pc = "constructed"
    /\ Len(edges) = 3
    /\ edges[1] # edges[2]

\* C4: whenever any edge has a dimension other than 2, whatever its
\* position and whatever the endpoints of the others, construction fails
\* with the dimension error 'Curve not in R^2'.  (Stated for two edges
\* or more: with fewer the side count is refused first.)
C4_DimensionErrorReported ==
    (PolygonDone /\ Len(edges) >= 2 /\ ~AllPlanar) =>
        p_pc = "failed" /\ p_err = "Curve not in R^2"

\* C5: the docstring's CurvedPolygon(edge0, edge1, edge2, edge3) is
\* constructed and has num_sides = 4.
C5_DocstringExample ==
    (PolygonDone /\ edges = DocEdges) =>
        p_pc = "constructed" /\ num_sides = 4

\* C6: surface.area raises NotImplementedError whenever the cache holds no
\* value and otherwise returns the value most recently assigned; no read
\* changes the cache.
C6_AreaCache ==
    /\ _area = written
    /\ s_op = "read" =>
         s_ret = IF written = None
                   THEN Err("Area computation not yet implemented.")
                   ELSE Ok(written[1])

C6_Witness ==
    s_op = "read" /\ written = Some(0) /\ s_ret = Ok(0)

\* C7: with fewer than two edges construction fails before any call of
\* _verify_pair, even for one closed 2D edge; a constructed polygon has
\* num_sides equal to the number of edges supplied, and at least 2.
C7_AtLeastTwoSides ==
    /\ (p_pc # "start" /\ Len(edges) < 2) =>
         /\ p_pc = "failed"
         /\ p_err = "At least two sides required."
         /\ p_calls = 0
    /\ p_pc = "constructed" =>
         num_sides = Len(edges) /\ num_sides >= 2

C7_Witness ==
    /\ p_pc = "failed"
    /\ p_calls = 0
    /\ Len(edges) = 1
    /\ edges[1].dimension = 2
    /\ JunctionMatches(1)

Abs(x) == IF x < 0 THEN 0 - x ELSE x

\* Two reported parameter pairs differ by less than the threshold width
\* 2^-ThresholdBits in both s and t.
Near(a, b) ==
    /\ Abs(a.s * b.den - b.s * a.den) * Pow2(ThresholdBits) < a.den * b.den
    /\ Abs(a.t * b.den - b.t * a.den) * Pow2(ThresholdBits) < a.den * b.den

\* C9: no two intersections reported for one curve pair have (s, t) that
\* differ by less than the tolerance; stated for the pair CURVE3, CURVE4,
\* whose result is to contain each distinct (s, t) once.
C9_NoDuplicates ==
    (i_pc = "done" /\ CurvePairs[pair] = <<CURVE3, CURVE4>>) =>
        \A i \in 1..Len(intersections) : \A j \in (i + 1)..Len(intersections) :
            ~Near(intersections[i], intersections[j])

\* The deepest a candidate can be: one halving past the threshold width.
MaxDepth == ThresholdBits + 1

\* The candidates a candidate of depth d can still give rise to, itself
\* included: a complete 4-ary tree down to MaxDepth.
Weight(d) ==
    IF d > MaxDepth THEN 1 ELSE (Pow2(2 * (MaxDepth - d + 1)) - 1) \div 3

\* The weights of the queued candidates of depth d and deeper.
RECURSIVE SumWeights(_, _)
SumWeights(q, d) ==
    IF d > MaxDepth
      THEN Cardinality({k \in 1..Len(q) : q[k].depth >= d})
      ELSE Weight(d) * Cardinality({k \in 1..Len(q) : q[k].depth = d})
             + SumWeights(q, d + 1)

\* The steps the search can still take.
WorkLeft == SumWeights(queue, 0) + IF i_pc = "search" THEN 1 ELSE 0

\* C10: the search terminates for every curve pair, identical curves
\* included: no candidate is deeper than the halvings needed to pass the
\* threshold, every step uses up work that is left, and the queue
\* eventually is empty and the search done.
C10_SearchTerminates ==
    /\ [](\A k \in 1..Len(queue) : queue[k].depth <= MaxDepth)
    /\ [][WorkLeft' < WorkLeft]_vars
    /\ <>(i_pc = "done" /\ queue = <<>>)

C10_Witness ==
    /\ i_pc = "done"
    /\ queue = <<>>
    /\ CurvePairs[pair] = <<CURVE1, CURVE1>>
    /\ Len(intersections) > 0

\* C11: for every num_nodes >= 0, _get_degree returns a degree d >= 0 or
\* raises; for num_nodes = 0 it raises 'not a triangular number'.
C11_DegreeNonNegative ==
    deg_pc = "done" =>
        /\ deg_ret.ok => deg_ret.val >= 0
        /\ num_nodes = 0 => deg_ret = Err("not a triangular number")

====
